---- MODULE Spec2Model ----
(***************************************************************************)
(* The task synchronizer hook useTasks(userId) with its realtime channel   *)
(* and optimistic mutations, together with the remote task store it talks  *)
(* to.  Every remote call is two steps: the store handles the request      *)
(* (the Store actions) and later the awaiting continuation of the hook     *)
(* runs with the response (the Done actions).  Push events wait in the     *)
(* queue of the open channel until its payload handler is called.          *)
(***************************************************************************)
EXTENDS Integers, Sequences, FiniteSets, Bags, TLC

\* ---------------------------------------------------------------- bounds
MaxEvents == 2    \* calls of the hook, changes of userId and writes of
                  \* other sessions, together, in one behaviour

\* ---------------------------------------------------------------- values
Users   == {"u1", "u2"}
NoUser  == "undefined"
NoChannel == [topic |-> "null"]
NoError == "null"
Titles  == {"a", "b"}
NoDue   == 0
Now     == 5       \* new Date(): an instant in the course of day 2
DueDates == {NoDue, 1}
NoText  == "undefined"
MaxTitle == 500
MaxDescription == 2000

VARIABLES
  userId,        \* the hook's argument at the last render
  mounted,       \* the component using the hook is mounted
  tasks,         \* useState<Task[]>
  loading,       \* useState(true)
  error,         \* useState<string | null>
  stats,         \* useState({total, completed, pending, overdue})
  isMountedRef,  \* useRef(true)
  channelRef,    \* useRef: the channel the last effect opened, or NoChannel
  channels,      \* the channels open at the supabase client
  pushQ,         \* events the open channel has still to hand to its handler
  redelivered,   \* the head event of pushQ has been handed over already
  store,         \* the rows of the remote table 'tasks'
  nextId,        \* the next id the store assigns
  ops,           \* remote calls in flight, with the closure of their caller
  outcome,       \* the call of the hook the last step settled, and how
  events         \* calls, userId changes and foreign writes so far

vars == <<userId, mounted, tasks, loading, error, stats, isMountedRef,
          channelRef, channels, pushQ, redelivered, store, nextId, ops,
          outcome, events>>

hookState == <<tasks, loading, error, stats>>

\* ------------------------------------------------------- pure helpers
RECURSIVE SortDesc(_)
SortDesc(S) ==
  IF S = {} THEN <<>>
  ELSE LET m == CHOOSE r \in S : \A q \in S : q.created_at <= r.created_at
       IN  <<m>> \o SortDesc(S \ {m})

\* .eq('user_id', userId).order('created_at', { ascending: false })
SelectTasks(u) == SortDesc({r \in store : r.user_id = u})

\* new Date(due_date): a calendar date is the instant its day begins, with
\* two instants to a day.
ParseDate(d) == 2 * d

\* IsOverdue that does not look at is_complete.
IsOverdueAnyStatus(t) == t.due_date # NoDue /\ ParseDate(t.due_date) < Now

IsOverdue(t) ==
  ~t.is_complete /\ t.due_date # NoDue /\ ParseDate(t.due_date) < Now

\* computeStats with pending taken for the total.
computeStatsNoSubtract(data) ==
  LET total     == Len(data)
      completed == Len(SelectSeq(data, LAMBDA t : t.is_complete))
      overdue   == Len(SelectSeq(data, IsOverdue))
  IN  [total |-> total, completed |-> completed,
       pending |-> total, overdue |-> overdue]

computeStats(data) ==
  LET total     == Len(data)
      completed == Len(SelectSeq(data, LAMBDA t : t.is_complete))
      pending   == total - completed
      overdue   == Len(SelectSeq(data, IsOverdue))
  IN  [total |-> total, completed |-> completed,
       pending |-> pending, overdue |-> overdue]

\* Sample strings are known by their names; "x500" stands for a string of
\* 500 letters, "x500 " for the same followed by a blank, and so on.
\* String.prototype.length
Length(s) ==
  CASE s = ""                   -> 0
    [] s \in {"a", "b"}         -> 1
    [] s \in {"   ", " a "}     -> 3
    [] s = "x500"               -> 500
    [] s \in {"x500 ", "x501"}  -> 501
    [] s = "d2000"              -> 2000
    [] s \in {"d2000 ", "d2001"} -> 2001

\* String.prototype.trim
Trim(s) ==
  CASE s = "   "    -> ""
    [] s = " a "    -> "a"
    [] s = "x500 "  -> "x500"
    [] s = "d2000 " -> "d2000"
    [] OTHER        -> s

\* !title || title.length === 0, and title.length > 500, of the trimmed title
TitleRejected(title) ==
  Trim(title) = "" \/ Length(Trim(title)) = 0 \/ Length(Trim(title)) > MaxTitle

\* input.description && input.description.length > 2000
DescriptionRejected(input) ==
  /\ "description" \in DOMAIN input
  /\ input.description # NoText /\ input.description # ""
  /\ Length(input.description) > MaxDescription

\* { ...task, ...updates }
Spread(task, updates) ==
  [f \in DOMAIN task |-> IF f \in DOMAIN updates THEN updates[f] ELSE task[f]]

RemoveTask(prev, id) == SelectSeq(prev, LAMBDA t : t.id # id)

Range(seq) == {seq[i] : i \in 1..Len(seq)}

HasId(prev, id) == \E i \in 1..Len(prev) : prev[i].id = id

\* ------------------------------------------- realtime payload handler
\* MergeInsert without its duplicate check.
MergeInsertNoCheck(prev, newTask) == <<newTask>> \o prev

MergeInsert(prev, newTask) ==
  IF HasId(prev, newTask.id) THEN prev ELSE <<newTask>> \o prev

\* MergeUpdate that adds the row when no task has its id.
MergeUpdateUpsert(prev, new) ==
  IF HasId(prev, new.id)
  THEN [i \in 1..Len(prev) |-> IF prev[i].id = new.id THEN new ELSE prev[i]]
  ELSE <<new>> \o prev

MergeUpdate(prev, new) ==
  [i \in 1..Len(prev) |->
     IF prev[i].id = new.id THEN new ELSE prev[i]]

\* MergeDelete by splice(findIndex(...), 1): index -1 removes the last task.
MergeDeleteSplice(prev, old) ==
  IF HasId(prev, old.id) THEN RemoveTask(prev, old.id)
  ELSE SubSeq(prev, 1, Len(prev) - 1)

MergeDelete(prev, old) == RemoveTask(prev, old.id)

Merge(prev, payload) ==
  IF payload.eventType = "INSERT" THEN MergeInsert(prev, payload.new)
  ELSE IF payload.eventType = "UPDATE" THEN MergeUpdate(prev, payload.new)
  ELSE IF payload.eventType = "DELETE" THEN MergeDelete(prev, payload.old)
  ELSE prev

\* -------------------------------------------------- optimistic effects
\* OptimisticUpdate that shows nothing before the store answers.
OptimisticUpdateNone(prev, taskId, updates) == prev

OptimisticUpdate(prev, taskId, updates) ==
  [i \in 1..Len(prev) |->
     IF prev[i].id = taskId THEN Spread(prev[i], updates) ELSE prev[i]]

OptimisticToggle(prev, taskId, currentStatus) ==
  [i \in 1..Len(prev) |->
     IF prev[i].id = taskId THEN [prev[i] EXCEPT !.is_complete = ~currentStatus] ELSE prev[i]]

\* RevertToggle writing the flipped value again.
RevertToggleFlipped(prev, taskId, currentStatus) ==
  [i \in 1..Len(prev) |->
     IF prev[i].id = taskId THEN [prev[i] EXCEPT !.is_complete = ~currentStatus] ELSE prev[i]]

RevertToggle(prev, taskId, currentStatus) ==
  [i \in 1..Len(prev) |->
     IF prev[i].id = taskId THEN [prev[i] EXCEPT !.is_complete = currentStatus] ELSE prev[i]]

OptimisticDelete(prev, taskId) == RemoveTask(prev, taskId)

\* RevertDelete that restores nothing.
RevertDeleteNone(prev, originalTasks) == prev

RevertDelete(prev, originalTasks) == originalTasks

\* ---------------------------------------------------------- in flight
\* One remote call awaited by the hook.  user, taskId, arg (currentStatus),
\* input (the input or the updates) and snapshot are what the awaiting
\* closure captured; stale says the activation that
\* started it has been torn down since; event is the change the store
\* published when it handled the call.
NoEvent == [eventType |-> "NONE"]

NoInput == [none |-> TRUE]

Op(kind, u, taskId, arg, input, snapshot, parent) ==
  [kind |-> kind, user |-> u, taskId |-> taskId, arg |-> arg,
   input |-> input, snapshot |-> snapshot, parent |-> parent,
   phase |-> "sent", data |-> <<>>, event |-> NoEvent, stale |-> FALSE]

FetchOp(u, parent) == Op("fetch", u, 0, FALSE, NoInput, <<>>, parent)

\* ops is a bag: the calls in flight are not ordered among themselves.
Without(op) == ops (-) SetToBag({op})

Answer(op, data, event) ==
  Without(op) (+) SetToBag({[op EXCEPT !.phase = "answered", !.data = data,
                                       !.event = event]})

Settled(kind, status, taskId, arg) ==
  [op |-> kind, status |-> status, taskId |-> taskId, arg |-> arg]

NotSettled == Settled("none", "none", 0, FALSE)

\* supabase.channel(`tasks_${userId}_${Date.now()}`) with its filter on
\* user_id; the clock is the number of events so far.
Channel(u, at) == [topic |-> "tasks", user |-> u, at |-> at]

\* removeChannel that leaves the channel open.
RemoveChannelKeep(open, channel) == open

\* supabase.removeChannel(channel)
RemoveChannel(open, channel) == open \ {channel}

\* An event of user u's rows goes to the handler of an open channel that
\* filters on u.
Emit(u, payload) ==
  IF \E c \in channels : c.user = u THEN Append(pushQ, payload) ELSE pushQ

\* One more call, userId change or foreign write, while the bound allows.
Event == events < MaxEvents /\ events' = events + 1

\* The ids the store has handed out so far.
Ids == 1..(nextId - 1)

\* ------------------------------------------------------------- Init
\* What the table may hold when the hook is constructed.
InitialStores ==
  {{}, {[id |-> 1, user_id |-> "u1", title |-> "a", is_complete |-> FALSE,
         due_date |-> 1, created_at |-> 1]}}

\* The state after the first render and its effect, for each userId the
\* hook may be constructed with.
Init ==
  /\ userId \in Users \cup {NoUser}
  /\ mounted = TRUE
  /\ tasks = <<>>
  /\ loading = (userId # NoUser)
  /\ error = NoError
  /\ stats = [total |-> 0, completed |-> 0, pending |-> 0, overdue |-> 0]
  /\ isMountedRef = TRUE
  /\ channelRef = IF userId = NoUser THEN NoChannel ELSE Channel(userId, 0)
  /\ channels = IF userId = NoUser THEN {} ELSE {Channel(userId, 0)}
  /\ pushQ = <<>>
  /\ redelivered = FALSE
  /\ store \in InitialStores
  /\ nextId = Cardinality(store) + 1
  /\ ops = IF userId = NoUser THEN EmptyBag
           ELSE SetToBag({FetchOp(userId, "effect")})
  /\ outcome = NotSettled
  /\ events = 0

\* ------------------------------------------------- session lifecycle
\* The effect's cleanup: it exists only when the effect opened a channel.
Stale(op) == [op EXCEPT !.stale = TRUE]

MarkStale(B) ==
  [o \in {Stale(x) : x \in BagToSet(B)} |->
     CopiesIn(o, B) + CopiesIn([o EXCEPT !.stale = FALSE], B)]

TornDown(B) == IF userId # NoUser THEN MarkStale(B) ELSE B

\* What the cleanup leaves of the open channels and of channelRef.
CleanupChannels ==
  IF userId # NoUser /\ channelRef # NoChannel
  THEN RemoveChannel(channels, channelRef)
  ELSE channels

CleanupRef == IF userId # NoUser THEN NoChannel ELSE channelRef

\* A render with another userId: the previous effect's cleanup, then the
\* effect again (fetchTasks up to its await, then the channel).
SetUserId(u) ==
  /\ mounted
  /\ u # userId
  /\ Event
  /\ userId' = u
  /\ isMountedRef' = TRUE
  /\ ops' = IF u = NoUser THEN TornDown(ops)
            ELSE TornDown(ops) (+) SetToBag({FetchOp(u, "effect")})
  /\ channelRef' = IF u = NoUser THEN CleanupRef ELSE Channel(u, events + 1)
  /\ channels' = IF u = NoUser THEN CleanupChannels
                 ELSE CleanupChannels \cup {Channel(u, events + 1)}
  /\ pushQ' = <<>>
  /\ redelivered' = FALSE
  /\ loading' = IF u = NoUser THEN FALSE ELSE loading
  /\ error' = IF u = NoUser THEN error ELSE NoError
  /\ outcome' = NotSettled
  /\ UNCHANGED <<mounted, tasks, stats, store, nextId>>

Unmount ==
  /\ UNCHANGED events
  /\ mounted
  /\ mounted' = FALSE
  /\ isMountedRef' = IF userId # NoUser THEN FALSE ELSE isMountedRef
  /\ ops' = TornDown(ops)
  /\ channelRef' = CleanupRef
  /\ channels' = CleanupChannels
  /\ pushQ' = <<>>
  /\ redelivered' = FALSE
  /\ outcome' = NotSettled
  /\ UNCHANGED <<userId, tasks, loading, error, stats, store, nextId>>

\* ------------------------------------------------ the hook's operations
\* The caller is the App: its form calls createTask at any time, and each
\* task shown (none while loading) has the controls that call updateTask,
\* toggleTask with the value shown, and deleteTask.
Shown == IF loading THEN {} ELSE Range(tasks)

Inputs == [title : {"a"}, due_date : {NoDue}]
Patches == [title : {"b"}]

CreateTask(input) ==
  /\ mounted
  /\ Event
  /\ IF userId = NoUser \/ TitleRejected(input.title) \/ DescriptionRejected(input)
     THEN /\ outcome' = Settled("create", "rejected", 0, FALSE)
          /\ UNCHANGED <<error, ops>>
     ELSE /\ error' = NoError
          /\ ops' = ops (+) SetToBag({Op("create", userId, 0, FALSE, input, <<>>, "call")})
          /\ outcome' = NotSettled
  /\ UNCHANGED <<userId, mounted, tasks, loading, stats, isMountedRef,
                 channelRef, channels, pushQ, redelivered, store, nextId>>

UpdateTask(taskId, updates) ==
  /\ mounted
  /\ Event
  /\ IF userId = NoUser
        \/ ("title" \in DOMAIN updates /\ TitleRejected(updates.title))
     THEN /\ outcome' = Settled("update", "rejected", 0, FALSE)
          /\ UNCHANGED <<error, tasks, ops>>
     ELSE /\ error' = NoError
          /\ tasks' = OptimisticUpdate(tasks, taskId, updates)
          /\ ops' = ops (+) SetToBag({Op("update", userId, taskId, FALSE, updates, <<>>, "call")})
          /\ outcome' = NotSettled
  /\ UNCHANGED <<userId, mounted, loading, stats, isMountedRef,
                 channelRef, channels, pushQ, redelivered, store, nextId>>

ToggleTask(taskId, currentStatus) ==
  /\ mounted
  /\ Event
  /\ tasks' = OptimisticToggle(tasks, taskId, currentStatus)
  /\ ops' = ops (+) SetToBag({Op("toggle", userId, taskId, currentStatus, NoInput, <<>>, "call")})
  /\ outcome' = NotSettled
  /\ UNCHANGED <<userId, mounted, loading, error, stats, isMountedRef,
                 channelRef, channels, pushQ, redelivered, store, nextId>>

DeleteTask(taskId) ==
  /\ mounted
  /\ Event
  /\ IF userId = NoUser
     THEN /\ outcome' = Settled("delete", "rejected", 0, FALSE)
          /\ UNCHANGED <<error, tasks, ops>>
     ELSE /\ error' = NoError
          /\ tasks' = OptimisticDelete(tasks, taskId)
          /\ ops' = ops (+) SetToBag({Op("delete", userId, taskId, FALSE, NoInput, tasks, "call")})
          /\ outcome' = NotSettled
  /\ UNCHANGED <<userId, mounted, loading, stats, isMountedRef,
                 channelRef, channels, pushQ, redelivered, store, nextId>>

\* ------------------------------------------------------ the remote store
NewRow(u, input) ==
  [id |-> nextId, user_id |-> u, title |-> Trim(input.title),
   is_complete |-> FALSE,
   due_date |-> input.due_date, created_at |-> nextId]

Matching(taskId, u) == {r \in store : r.id = taskId /\ r.user_id = u}

InsertEvent(u, input) == [eventType |-> "INSERT", new |-> NewRow(u, input)]

UpdateEvent(taskId, u, changes) ==
  IF Matching(taskId, u) = {} THEN NoEvent
  ELSE [eventType |-> "UPDATE",
        new |-> Spread(CHOOSE x \in Matching(taskId, u) : TRUE, changes)]

DeleteEvent(taskId, u) ==
  IF Matching(taskId, u) = {} THEN NoEvent
  ELSE [eventType |-> "DELETE", old |-> [id |-> taskId]]

Publish(u, event) == IF event = NoEvent THEN pushQ ELSE Emit(u, event)

InsertRow(u, input) ==
  /\ store' = store \cup {NewRow(u, input)}
  /\ nextId' = nextId + 1
  /\ pushQ' = Publish(u, InsertEvent(u, input))

UpdateRows(taskId, u, changes) ==
  /\ store' = (store \ Matching(taskId, u))
                 \cup {Spread(r, changes) : r \in Matching(taskId, u)}
  /\ pushQ' = Publish(u, UpdateEvent(taskId, u, changes))
  /\ UNCHANGED nextId

DeleteRows(taskId, u) ==
  /\ store' = store \ Matching(taskId, u)
  /\ pushQ' = Publish(u, DeleteEvent(taskId, u))
  /\ UNCHANGED nextId

\* What a toggle or an update writes.
Changes(op) == IF op.kind = "update" THEN op.input ELSE [is_complete |-> ~op.arg]

Sent(op, kinds) == op.phase = "sent" /\ op.kind \in kinds

StoreSelect(op) ==
  /\ UNCHANGED events
  /\ Sent(op, {"fetch"})
  /\ ops' = Answer(op, SelectTasks(op.user), NoEvent)
  /\ outcome' = NotSettled
  /\ UNCHANGED <<userId, mounted, tasks, loading, error, stats, isMountedRef,
                 channelRef, channels, pushQ, redelivered, store, nextId>>

StoreInsert(op) ==
  /\ UNCHANGED events
  /\ Sent(op, {"create"})
  /\ InsertRow(op.user, op.input)
  /\ ops' = Answer(op, <<NewRow(op.user, op.input)>>, InsertEvent(op.user, op.input))
  /\ outcome' = NotSettled
  /\ UNCHANGED <<userId, mounted, tasks, loading, error, stats, isMountedRef,
                 channelRef, channels, redelivered>>

StoreUpdate(op) ==
  /\ UNCHANGED events
  /\ Sent(op, {"update", "toggle"})
  /\ UpdateRows(op.taskId, op.user, Changes(op))
  /\ ops' = Answer(op, <<>>, UpdateEvent(op.taskId, op.user, Changes(op)))
  /\ outcome' = NotSettled
  /\ UNCHANGED <<userId, mounted, tasks, loading, error, stats, isMountedRef,
                 channelRef, channels, redelivered>>

StoreDelete(op) ==
  /\ UNCHANGED events
  /\ Sent(op, {"delete"})
  /\ DeleteRows(op.taskId, op.user)
  /\ ops' = Answer(op, <<>>, DeleteEvent(op.taskId, op.user))
  /\ outcome' = NotSettled
  /\ UNCHANGED <<userId, mounted, tasks, loading, error, stats, isMountedRef,
                 channelRef, channels, redelivered>>

\* Other sessions writing to the same table (of interest while the hook
\* is there to see it).
OtherInsert(u, input) ==
  /\ mounted
  /\ Event
  /\ InsertRow(u, input)
  /\ outcome' = NotSettled
  /\ UNCHANGED <<userId, mounted, tasks, loading, error, stats, isMountedRef,
                 channelRef, channels, redelivered, ops>>

OtherUpdate(r, changes) ==
  /\ mounted
  /\ Event
  /\ r \in store
  /\ Spread(r, changes) # r
  /\ UpdateRows(r.id, r.user_id, changes)
  /\ outcome' = NotSettled
  /\ UNCHANGED <<userId, mounted, tasks, loading, error, stats, isMountedRef,
                 channelRef, channels, redelivered, ops>>

OtherDelete(r) ==
  /\ mounted
  /\ Event
  /\ r \in store
  /\ DeleteRows(r.id, r.user_id)
  /\ outcome' = NotSettled
  /\ UNCHANGED <<userId, mounted, tasks, loading, error, stats, isMountedRef,
                 channelRef, channels, redelivered, ops>>

\* ------------------------------------------- continuations after await
\* The await of call op returns: with the store's answer once the store has
\* handled the call, or with an error (the call changed nothing in the store).
Returns(op, kind, ok) ==
  /\ op.kind = kind
  /\ op.phase = IF ok THEN "answered" ELSE "sent"

\* fetchTasks called from a mutation: its synchronous part, up to the await.
\* The call replaces the mutation's own remote call in ops.
Refetch(op, parent) ==
  Without(op) (+) SetToBag({[FetchOp(op.user, parent) EXCEPT !.stale = op.stale]})

\* FetchDone with setLoading(false) at the end of the try block and not in
\* a finally.
FetchDoneNoFinally(op, ok) ==
  /\ UNCHANGED events
  /\ Returns(op, "fetch", ok)
  /\ ops' = Without(op)
  /\ LET guard == isMountedRef /\ mounted
     IN  /\ tasks' = IF ok /\ guard THEN op.data ELSE tasks
         /\ stats' = IF ok /\ guard THEN computeStats(op.data) ELSE stats
         /\ loading' = IF ok /\ guard THEN FALSE ELSE loading
         /\ error' = IF op.parent = "update" /\ mounted
                       THEN "Failed to update task"
                     ELSE IF ~ok /\ guard THEN "Failed to fetch tasks"
                     ELSE error
         /\ outcome' = IF op.parent = "create"
                         THEN Settled("create", "resolved", op.taskId, op.arg)
                       ELSE IF op.parent = "update"
                         THEN Settled("update", "rejected", op.taskId, op.arg)
                       ELSE NotSettled
  /\ UNCHANGED <<userId, mounted, isMountedRef, channelRef, channels, pushQ, redelivered,
                 store, nextId>>

\* fetchTasks after its await, then what its awaiting caller does.
FetchDone(op, ok) ==
  /\ UNCHANGED events
  /\ Returns(op, "fetch", ok)
  /\ ops' = Without(op)
  /\ LET guard == isMountedRef /\ mounted
     IN  /\ tasks' = IF ok /\ guard THEN op.data ELSE tasks
         /\ stats' = IF ok /\ guard THEN computeStats(op.data) ELSE stats
         /\ loading' = IF guard THEN FALSE ELSE loading
         /\ error' = IF op.parent = "update" /\ mounted
                       THEN "Failed to update task"
                     ELSE IF ~ok /\ guard THEN "Failed to fetch tasks"
                     ELSE error
         /\ outcome' = IF op.parent = "create"
                         THEN Settled("create", "resolved", op.taskId, op.arg)
                       ELSE IF op.parent = "update"
                         THEN Settled("update", "rejected", op.taskId, op.arg)
                       ELSE NotSettled
  /\ UNCHANGED <<userId, mounted, isMountedRef, channelRef, channels, pushQ, redelivered,
                 store, nextId>>

\* CreateDone whose catch does not rethrow.
CreateDoneSwallow(op, ok) ==
  /\ UNCHANGED events
  /\ Returns(op, "create", ok)
  /\ IF ok
     THEN /\ error' = IF mounted THEN NoError ELSE error
          /\ ops' = Refetch(op, "create")
          /\ outcome' = NotSettled
     ELSE /\ error' = IF mounted THEN "Failed to create task" ELSE error
          /\ ops' = Without(op)
          /\ outcome' = Settled("create", "resolved", op.taskId, op.arg)
  /\ UNCHANGED <<userId, mounted, tasks, loading, stats, isMountedRef,
                 channelRef, channels, pushQ, redelivered, store, nextId>>

CreateDone(op, ok) ==
  /\ UNCHANGED events
  /\ Returns(op, "create", ok)
  /\ IF ok
     THEN /\ error' = IF mounted THEN NoError ELSE error
          /\ ops' = Refetch(op, "create")
          /\ outcome' = NotSettled
     ELSE /\ error' = IF mounted THEN "Failed to create task" ELSE error
          /\ ops' = Without(op)
          /\ outcome' = Settled("create", "rejected", op.taskId, op.arg)
  /\ UNCHANGED <<userId, mounted, tasks, loading, stats, isMountedRef,
                 channelRef, channels, pushQ, redelivered, store, nextId>>

UpdateDone(op, ok) ==
  /\ UNCHANGED events
  /\ Returns(op, "update", ok)
  /\ IF ok
     THEN /\ ops' = Without(op)
          /\ outcome' = Settled("update", "resolved", op.taskId, op.arg)
          /\ UNCHANGED error
     ELSE /\ error' = IF mounted THEN NoError ELSE error
          /\ ops' = Refetch(op, "update")
          /\ outcome' = NotSettled
  /\ UNCHANGED <<userId, mounted, tasks, loading, stats, isMountedRef,
                 channelRef, channels, pushQ, redelivered, store, nextId>>

\* ToggleDone whose catch rethrows.
ToggleDoneRethrow(op, ok) ==
  /\ UNCHANGED events
  /\ Returns(op, "toggle", ok)
  /\ ops' = Without(op)
  /\ IF ok
     THEN UNCHANGED <<tasks, error>>
     ELSE /\ tasks' = IF mounted
                      THEN RevertToggle(tasks, op.taskId, op.arg)
                      ELSE tasks
          /\ error' = IF mounted THEN "Failed to toggle task" ELSE error
  /\ outcome' = Settled("toggle", IF ok THEN "resolved" ELSE "rejected",
                        op.taskId, op.arg)
  /\ UNCHANGED <<userId, mounted, loading, stats, isMountedRef,
                 channelRef, channels, pushQ, redelivered, store, nextId>>

ToggleDone(op, ok) ==
  /\ UNCHANGED events
  /\ Returns(op, "toggle", ok)
  /\ ops' = Without(op)
  /\ IF ok
     THEN UNCHANGED <<tasks, error>>
     ELSE /\ tasks' = IF mounted
                      THEN RevertToggle(tasks, op.taskId, op.arg)
                      ELSE tasks
          /\ error' = IF mounted THEN "Failed to toggle task" ELSE error
  /\ outcome' = Settled("toggle", "resolved", op.taskId, op.arg)
  /\ UNCHANGED <<userId, mounted, loading, stats, isMountedRef,
                 channelRef, channels, pushQ, redelivered, store, nextId>>

DeleteDone(op, ok) ==
  /\ UNCHANGED events
  /\ Returns(op, "delete", ok)
  /\ ops' = Without(op)
  /\ IF ok
     THEN /\ outcome' = Settled("delete", "resolved", op.taskId, op.arg)
          /\ UNCHANGED <<tasks, error>>
     ELSE /\ tasks' = IF mounted
                      THEN RevertDelete(tasks, op.snapshot)
                      ELSE tasks
          /\ error' = IF mounted THEN "Failed to delete task" ELSE error
          /\ outcome' = Settled("delete", "rejected", op.taskId, op.arg)
  /\ UNCHANGED <<userId, mounted, loading, stats, isMountedRef,
                 channelRef, channels, pushQ, redelivered, store, nextId>>

\* The channel calls the payload handler with its oldest waiting event;
\* with again it keeps the event and will hand it over once more.
PushDeliver(again) ==
  /\ UNCHANGED events
  /\ pushQ # <<>>
  /\ again => ~redelivered
  /\ tasks' = IF isMountedRef /\ mounted THEN Merge(tasks, Head(pushQ)) ELSE tasks
  /\ pushQ' = IF again THEN pushQ ELSE Tail(pushQ)
  /\ redelivered' = again
  /\ outcome' = NotSettled
  /\ UNCHANGED <<userId, mounted, loading, error, stats, isMountedRef,
                 channelRef, channels, store, nextId, ops>>

\* -------------------------------------------------------------- Next
Next ==
  \/ \E u \in Users \cup {NoUser} : SetUserId(u)
  \/ Unmount
  \/ \E input \in Inputs : CreateTask(input)
  \/ \E t \in Shown, updates \in Patches : UpdateTask(t.id, updates)
  \/ \E t \in Shown : ToggleTask(t.id, t.is_complete)
  \/ \E t \in Shown : DeleteTask(t.id)
  \/ \E op \in BagToSet(ops) : StoreSelect(op)
  \/ \E op \in BagToSet(ops) : StoreInsert(op)
  \/ \E op \in BagToSet(ops) : StoreUpdate(op)
  \/ \E op \in BagToSet(ops) : StoreDelete(op)
  \/ \E op \in BagToSet(ops), ok \in BOOLEAN : FetchDone(op, ok)
  \/ \E op \in BagToSet(ops), ok \in BOOLEAN : CreateDone(op, ok)
  \/ \E op \in BagToSet(ops), ok \in BOOLEAN : UpdateDone(op, ok)
  \/ \E op \in BagToSet(ops), ok \in BOOLEAN : ToggleDone(op, ok)
  \/ \E op \in BagToSet(ops), ok \in BOOLEAN : DeleteDone(op, ok)
  \/ \E again \in BOOLEAN : PushDeliver(again)
  \/ \E u \in Users, input \in Inputs : OtherInsert(u, input)
  \/ \E r \in store, changes \in Patches \cup [is_complete : BOOLEAN] :
       OtherUpdate(r, changes)
  \/ \E r \in store : OtherDelete(r)

Spec == Init /\ [][Next]_vars

\* The same hook when the store answers every select, with rows or with an
\* error, and the event loop runs the continuation of every settled await.
Answered ==
  \/ \E op \in BagToSet(ops) : StoreSelect(op)
  \/ \E op \in BagToSet(ops), ok \in BOOLEAN : FetchDone(op, ok)

SpecLive == Init /\ [][Next]_vars /\ WF_vars(Answered)

\* ------------------------------------------------ the merge on its own
\* The payload handler applied to any collection and any event: the open
\* channel holds one event and hands it over, once or twice.
MaxLen == 2       \* tasks in the collection the event is merged into

SampleRows ==
  {[id |-> i, user_id |-> "u1", title |-> t, is_complete |-> c,
    due_date |-> NoDue, created_at |-> i] :
     i \in 1..(MaxLen + 1), t \in Titles, c \in BOOLEAN}

RECURSIVE Collections(_)
Collections(n) ==
  IF n = 0 THEN {<<>>}
  ELSE Collections(n - 1) \cup
       {s \in {<<r>> \o c : r \in SampleRows, c \in Collections(n - 1)} :
          ~HasId(Tail(s), s[1].id)}

SampleEvents ==
  {[eventType |-> "INSERT", new |-> r] : r \in SampleRows} \cup
  {[eventType |-> "UPDATE", new |-> r] : r \in SampleRows} \cup
  {[eventType |-> "DELETE", old |-> [id |-> r.id]] : r \in SampleRows}

InitMerge ==
  /\ userId = "u1"
  /\ mounted = TRUE
  /\ tasks \in Collections(MaxLen)
  /\ loading = FALSE
  /\ error = NoError
  /\ stats = computeStats(<<>>)
  /\ isMountedRef = TRUE
  /\ channelRef = Channel("u1", 0)
  /\ channels = {Channel("u1", 0)}
  /\ pushQ \in {<<e>> : e \in SampleEvents}
  /\ redelivered = FALSE
  /\ store = {}
  /\ nextId = 1
  /\ ops = EmptyBag
  /\ outcome = NotSettled
  /\ events = 0

NextMerge == \E again \in BOOLEAN : PushDeliver(again)

SpecMerge == InitMerge /\ [][NextMerge]_vars

\* ------------------------------------------- the validation on its own
\* createTask and updateTask called with texts on both sides of each limit:
\* empty, blank, padded, of 500 letters with a blank after them, of 501
\* letters; no description, an empty one, one of 2000 letters, the same with
\* a blank after it, one of 2001 letters.
CreateInputs ==
  [title : {"", "   ", "a", " a ", "x500 ", "x501"},
   description : {NoText, "", "d2000", "d2000 ", "d2001"},
   due_date : {NoDue}]

UpdatePatches == [title : {"", "   ", "b", "x500 ", "x501"}] \cup [due_date : {1}]

NextValidate ==
  \/ \E input \in CreateInputs : CreateTask(input)
  \/ \E t \in Shown, updates \in UpdatePatches : UpdateTask(t.id, updates)
  \/ \E op \in BagToSet(ops) : StoreSelect(op)
  \/ \E op \in BagToSet(ops) : StoreInsert(op)
  \/ \E op \in BagToSet(ops) : StoreUpdate(op)
  \/ \E op \in BagToSet(ops), ok \in BOOLEAN : FetchDone(op, ok)
  \/ \E op \in BagToSet(ops), ok \in BOOLEAN : CreateDone(op, ok)
  \/ \E op \in BagToSet(ops), ok \in BOOLEAN : UpdateDone(op, ok)

SpecValidate == Init /\ [][NextValidate]_vars

\* ------------------------------------------------- the stats on their own
\* The first fetch of user u1 over any table of up to MaxRows rows, each
\* complete or not, without due date or due yesterday, today or tomorrow.
MaxRows == 2

StatDueDates == {NoDue, 1, 2, 3}

StatTables ==
  {{[id |-> i, user_id |-> "u1", title |-> "a", is_complete |-> f[i][1],
     due_date |-> f[i][2], created_at |-> i] : i \in {j \in 1..MaxRows : f[j] # <<>>}} :
   f \in [1..MaxRows -> (BOOLEAN \X StatDueDates) \cup {<<>>}]}

InitStats ==
  /\ userId = "u1"
  /\ mounted = TRUE
  /\ tasks = <<>>
  /\ loading = TRUE
  /\ error = NoError
  /\ stats = [total |-> 0, completed |-> 0, pending |-> 0, overdue |-> 0]
  /\ isMountedRef = TRUE
  /\ channelRef = Channel("u1", 0)
  /\ channels = {Channel("u1", 0)}
  /\ pushQ = <<>>
  /\ redelivered = FALSE
  /\ store \in StatTables
  /\ nextId = MaxRows + 1
  /\ ops = SetToBag({FetchOp("u1", "effect")})
  /\ outcome = NotSettled
  /\ events = 0

NextStats ==
  \/ \E op \in BagToSet(ops) : StoreSelect(op)
  \/ \E op \in BagToSet(ops), ok \in BOOLEAN : FetchDone(op, ok)

SpecStats == InitStats /\ [][NextStats]_vars

\* ------------------------------------------------ after a change of user
\* The hook from the state Spec is in after its first step when that step
\* is the render that takes userId from u1 to u2 with the first fetch still
\* unanswered: that fetch is in flight, torn down, beside the fetch of u2,
\* and the channel of u2 is open.  The events are counted from there.
InitSwitch ==
  /\ userId = "u2"
  /\ mounted = TRUE
  /\ tasks = <<>>
  /\ loading = TRUE
  /\ error = NoError
  /\ stats = [total |-> 0, completed |-> 0, pending |-> 0, overdue |-> 0]
  /\ isMountedRef = TRUE
  /\ channelRef = Channel("u2", 1)
  /\ channels = {Channel("u2", 1)}
  /\ pushQ = <<>>
  /\ redelivered = FALSE
  /\ store \in InitialStores
  /\ nextId = Cardinality(store) + 1
  /\ ops = SetToBag({Stale(FetchOp("u1", "effect")), FetchOp("u2", "effect")})
  /\ outcome = NotSettled
  /\ events = 0

SpecSwitch == InitSwitch /\ [][Next]_vars

\* ------------------------------------------------ toggles on their own
\* The hook of user u1 over any of the tables above when the App only
\* toggles the tasks shown: every write to the store is then the write of
\* a toggle, and its UPDATE event stays in the channel.
NextToggle ==
  \/ \E op \in BagToSet(ops) : StoreSelect(op)
  \/ \E op \in BagToSet(ops), ok \in BOOLEAN : FetchDone(op, ok)
  \/ \E t \in Shown : ToggleTask(t.id, t.is_complete)
  \/ \E op \in BagToSet(ops) : StoreUpdate(op)
  \/ \E op \in BagToSet(ops), ok \in BOOLEAN : ToggleDone(op, ok)

SpecToggle == InitStats /\ [][NextToggle]_vars

\* ===================================================================
\* Properties
\* ===================================================================
Count(seq, id) == Cardinality({i \in 1..Len(seq) : seq[i].id = id})

Completes(op) ==
  \E ok \in BOOLEAN :
    \/ FetchDone(op, ok)
    \/ CreateDone(op, ok)
    \/ UpdateDone(op, ok)
    \/ ToggleDone(op, ok)
    \/ DeleteDone(op, ok)

\* C1: in every reachable state each task id appears at most once in the
\* local task collection.
C1_NoDuplicateIds ==
  \A i, j \in 1..Len(tasks) : tasks[i].id = tasks[j].id => i = j

\* An INSERT event for a task the collection already holds has been handed
\* to the handler, and will be handed over once more.
C1_Witness ==
  /\ redelivered
  /\ Head(pushQ).eventType = "INSERT"
  /\ HasId(tasks, Head(pushQ).new.id)
  /\ Len(tasks) >= 2

\* C2: in every reachable state every task of the local collection is owned
\* by the current userId (so none of the previous user's tasks is there once
\* userId has changed or gone).
C2_SessionIsolation ==
  \A i \in 1..Len(tasks) : tasks[i].user_id = userId

\* C3: the completion of a fetch or of a mutation whose activation has been
\* torn down changes none of tasks, stats, loading and error.
C3_StaleCompletionsDiscarded ==
  [][\A op \in BagToSet(ops) :
       (op.stale /\ Completes(op)) => UNCHANGED hookState]_vars

\* C4: in every reachable state the exposed stats are those of the exposed
\* collection: total is the number of tasks and completed the number of
\* complete ones.
C4_StatsFollowTasks ==
  /\ stats.total = Len(tasks)
  /\ stats.completed = Len(SelectSeq(tasks, LAMBDA t : t.is_complete))

\* C5: in every reachable state total = completed + pending and
\* overdue <= pending.
C5_StatsConsistent ==
  /\ stats.total = stats.completed + stats.pending
  /\ stats.overdue <= stats.pending

\* Stats of a fetched collection with a completed and an overdue task.
C5_Witness ==
  /\ stats.completed > 0
  /\ stats.overdue > 0
  /\ stats.total = Len(tasks)

\* C6: once nothing is in flight and no push event waits, the local
\* collection is what the store holds for the current userId.  Read in the
\* claim's favour: with a user signed in and no failure on display.
Quiescent == mounted /\ ops = EmptyBag /\ pushQ = <<>>

C6_ConsistentWhenQuiescent ==
  (Quiescent /\ userId # NoUser /\ error = NoError)
    => Range(tasks) = {r \in store : r.user_id = userId}

\* C7: the rollback of a failed delete or toggle undoes only that
\* mutation's own change: every other task of the collection, those merged
\* from push events since the optimistic effect included, stays as it is.
C7_RollbackKeepsOthers ==
  [][\A op \in BagToSet(ops) :
       (mounted /\ (DeleteDone(op, FALSE) \/ ToggleDone(op, FALSE)))
         => RemoveTask(tasks', op.taskId) = RemoveTask(tasks, op.taskId)]_vars

\* C8: when the store has handled a mutation of this hook and the event it
\* published for it is the one event waiting in the channel (the store has
\* not changed since), processing the confirmation first or the event
\* first ends in the same collection, with the task's id at most once in
\* it and, for a delete, not at all.
\* A confirmed create re-fetches; the other confirmations change nothing.
Confirm(prev, op) == IF op.kind = "create" THEN SelectTasks(op.user) ELSE prev

EventId(e) == IF e.eventType = "DELETE" THEN e.old.id ELSE e.new.id

Racing ==
  {op \in BagToSet(ops) :
     /\ op.phase = "answered" /\ op.event # NoEvent /\ ~op.stale
     /\ mounted /\ isMountedRef
     /\ pushQ = <<op.event>>}

C8_ConfirmAndPushCommute ==
  \A op \in Racing :
    LET e            == op.event
        pushFirst    == Confirm(Merge(tasks, e), op)
        confirmFirst == Merge(Confirm(tasks, op), e)
    IN  /\ pushFirst = confirmFirst
        /\ Count(pushFirst, EventId(e)) <= 1
        /\ e.eventType = "DELETE" => ~HasId(pushFirst, EventId(e))

\* A create of this hook has been inserted by the store and its INSERT
\* event waits, while the collection already holds another task.
C8_Witness ==
  \E op \in Racing :
    /\ op.kind = "create"
    /\ \E t \in Range(tasks) : t.id # EventId(op.event)

\* C9: handing the same push event to the handler twice in a row leaves
\* the collection as the first application left it.
C9_MergeIdempotent == [][redelivered => tasks' = tasks]_vars

\* An INSERT event was applied to a collection of MaxLen tasks, was put at
\* its head, and waits to be applied again.
C9_Witness ==
  /\ redelivered
  /\ Head(pushQ).eventType = "INSERT"
  /\ Len(tasks) = MaxLen + 1
  /\ tasks[1] = Head(pushQ).new

\* C10: toggle(id, false) shows the task complete before the remote call
\* returns; when the call fails the task is incomplete again, error holds
\* the toggle message and the caller's promise resolves.
C10_ToggleRollback ==
  [][/\ \A id \in Ids :
          ToggleTask(id, FALSE) =>
            /\ \A t \in Range(tasks') : t.id = id => t.is_complete
            /\ \E op \in BagToSet(ops') :
                 op.kind = "toggle" /\ op.taskId = id /\ op.phase = "sent"
     /\ \A op \in BagToSet(ops) :
          (mounted /\ op.kind = "toggle" /\ op.arg = FALSE /\ ToggleDone(op, FALSE)) =>
            /\ \A t \in Range(tasks') : t.id = op.taskId => ~t.is_complete
            /\ error' = "Failed to toggle task"
            /\ outcome'.status = "resolved"]_vars

\* toggle(id, false) on a task of the collection has failed: the task is
\* there, incomplete, and the message is set.
C10_Witness ==
  /\ outcome.op = "toggle" /\ outcome.arg = FALSE
  /\ error = "Failed to toggle task"
  /\ \E t \in Range(tasks) : t.id = outcome.taskId /\ ~t.is_complete

\* C11: delete(id) with a user signed in takes the task out of the
\* collection before the remote call returns, keeping the collection of
\* just before as its snapshot; when the call fails the collection is that
\* snapshot again, error holds the delete message and the caller's promise
\* rejects.
C11_DeleteRollback ==
  [][/\ \A id \in Ids :
          (userId # NoUser /\ DeleteTask(id)) =>
            /\ ~HasId(tasks', id)
            /\ \E op \in BagToSet(ops') :
                 /\ op.kind = "delete" /\ op.taskId = id /\ op.phase = "sent"
                 /\ op.snapshot = tasks
     /\ \A op \in BagToSet(ops) :
          (mounted /\ DeleteDone(op, FALSE)) =>
            /\ tasks' = op.snapshot
            /\ error' = "Failed to delete task"
            /\ outcome' = Settled("delete", "rejected", op.taskId, op.arg)]_vars

\* A delete of a task of the collection has failed: the task is back and
\* the message is set.
C11_Witness ==
  /\ outcome.op = "delete" /\ outcome.status = "rejected"
  /\ error = "Failed to delete task"
  /\ HasId(tasks, outcome.taskId)

\* C12: update(id, patch) with a user signed in shows the patched fields of
\* the task before the remote call returns; when the call fails a fetch of
\* the whole collection is started, and when that fetch succeeds (in the
\* activation that started it, with a response the store has not outdated)
\* the collection is what the store holds for userId, error holds the
\* update message and the caller's promise rejects.
C12_UpdateRefetch ==
  [][/\ \A id \in Ids, patch \in Patches :
          (userId # NoUser /\ UpdateTask(id, patch)) =>
            /\ Len(tasks') = Len(tasks)
            /\ \A i \in 1..Len(tasks) :
                 tasks'[i] = IF tasks[i].id = id THEN Spread(tasks[i], patch)
                             ELSE tasks[i]
            /\ \E op \in BagToSet(ops') :
                 op.kind = "update" /\ op.taskId = id /\ op.phase = "sent"
     /\ \A op \in BagToSet(ops) :
          UpdateDone(op, FALSE) =>
            \E f \in BagToSet(ops') :
              f.kind = "fetch" /\ f.parent = "update" /\ f.user = op.user
     /\ \A f \in BagToSet(ops) :
          (/\ mounted /\ ~f.stale /\ f.parent = "update"
           /\ FetchDone(f, TRUE) /\ f.data = SelectTasks(f.user)) =>
            /\ tasks' = SelectTasks(userId)
            /\ error' = "Failed to update task"
            /\ outcome'.op = "update" /\ outcome'.status = "rejected"]_vars

\* An update has failed and its fetch has brought back the store's row.
C12_Witness ==
  /\ outcome.op = "update" /\ outcome.status = "rejected"
  /\ error = "Failed to update task"
  /\ tasks # <<>> /\ tasks = SelectTasks(userId)

\* C13: create(input) changes nothing in the collection, neither when it is
\* called nor when its insert fails; the failure sets error to the create
\* message and the caller's promise rejects.
C13_CreateLeavesTasks ==
  [][/\ \A input \in Inputs :
          CreateTask(input) =>
            /\ tasks' = tasks
            /\ userId # NoUser =>
                 \E op \in BagToSet(ops') : op.kind = "create" /\ op.phase = "sent"
     /\ \A op \in BagToSet(ops) :
          CreateDone(op, FALSE) =>
            /\ tasks' = tasks
            /\ mounted => error' = "Failed to create task"
            /\ outcome'.op = "create" /\ outcome'.status = "rejected"]_vars

\* A create has failed while the collection held a task.
C13_Witness ==
  /\ outcome.op = "create" /\ outcome.status = "rejected"
  /\ error = "Failed to create task"
  /\ tasks # <<>>

\* C14: create(input) puts an insert in flight exactly when userId is there,
\* the trimmed title has 1 to 500 characters and the trimmed description,
\* if there is one, has at most 2000; update(id, patch) with a title puts an
\* update in flight only when the trimmed title has 1 to 500 characters.
\* A call that puts nothing in flight rejects and leaves tasks and stats.
TitleValid(title) ==
  Length(Trim(title)) >= 1 /\ Length(Trim(title)) <= MaxTitle

CreateValid(input) ==
  /\ userId # NoUser
  /\ TitleValid(input.title)
  /\ input.description # NoText =>
       Length(Trim(input.description)) <= MaxDescription

Refused(kind) ==
  /\ ops' = ops
  /\ outcome' = Settled(kind, "rejected", 0, FALSE)
  /\ UNCHANGED <<tasks, stats>>

C14_ValidationGuards ==
  [][/\ \A input \in CreateInputs :
          CreateTask(input) =>
            IF CreateValid(input)
            THEN \E op \in BagToSet(ops') :
                   /\ op.kind = "create" /\ op.phase = "sent" /\ op.input = input
                   /\ CopiesIn(op, ops') = CopiesIn(op, ops) + 1
            ELSE Refused("create")
     /\ \A id \in Ids, patch \in UpdatePatches :
          UpdateTask(id, patch) =>
            IF userId # NoUser /\ ("title" \in DOMAIN patch => TitleValid(patch.title))
            THEN \E op \in BagToSet(ops') :
                   /\ op.kind = "update" /\ op.phase = "sent" /\ op.input = patch
                   /\ CopiesIn(op, ops') = CopiesIn(op, ops) + 1
            ELSE Refused("update")]_vars

\* C15: with no userId a call of create, update, toggle or delete puts no
\* remote call in flight and leaves the collection as it is.
Calls ==
  \/ \E input \in Inputs : CreateTask(input)
  \/ \E id \in Ids, updates \in Patches : UpdateTask(id, updates)
  \/ \E id \in Ids, currentStatus \in BOOLEAN : ToggleTask(id, currentStatus)
  \/ \E id \in Ids : DeleteTask(id)

C15_NoUserNoEffect ==
  [][(userId = NoUser /\ Calls) => (ops' = ops /\ tasks' = tasks)]_vars

\* C16: a call of create, update, toggle or delete with a user signed in
\* and valid input leaves error = none when it puts its remote call in
\* flight; the continuation of a call that succeeded sets no message.
C16_ErrorClearedByAttempt ==
  [][/\ (userId # NoUser /\ Calls) => error' = NoError
     /\ \A op \in BagToSet(ops) :
          (\/ CreateDone(op, TRUE) \/ UpdateDone(op, TRUE)
           \/ ToggleDone(op, TRUE) \/ DeleteDone(op, TRUE))
            => error' \in {error, NoError}]_vars

\* C17: when the remote call of a create, an update or a delete fails,
\* error gets that operation's message and the caller's promise rejects
\* (for an update, once the fetch it starts has returned); a toggle's
\* promise resolves whatever the remote call returns, and a failed toggle
\* leaves its message in error.
C17_Propagation ==
  [][\A op \in BagToSet(ops) : mounted =>
       /\ CreateDone(op, FALSE) =>
            /\ error' = "Failed to create task"
            /\ outcome'.op = "create" /\ outcome'.status = "rejected"
       /\ DeleteDone(op, FALSE) =>
            /\ error' = "Failed to delete task"
            /\ outcome'.op = "delete" /\ outcome'.status = "rejected"
       /\ UpdateDone(op, FALSE) =>
            /\ outcome' = NotSettled
            /\ \E f \in BagToSet(ops') : f.kind = "fetch" /\ f.parent = "update"
       /\ \A ok \in BOOLEAN :
            (op.parent = "update" /\ FetchDone(op, ok)) =>
              /\ error' = "Failed to update task"
              /\ outcome'.op = "update" /\ outcome'.status = "rejected"
       /\ \A ok \in BOOLEAN :
            ToggleDone(op, ok) =>
              /\ outcome'.op = "toggle" /\ outcome'.status = "resolved"
              /\ ~ok => error' = "Failed to toggle task"]_vars

\* A toggle has failed and resolved, and nothing else is in flight.
C17_Witness ==
  /\ outcome.op = "toggle" /\ outcome.status = "resolved"
  /\ error = "Failed to toggle task"
  /\ ops = EmptyBag

\* C18: a render with a new concrete userId leaves the collection empty,
\* loading = true and error = none, and loading stays true as long as the
\* initial fetch of that activation has not returned.
InitialFetchPending ==
  \E op \in BagToSet(ops) :
    op.kind = "fetch" /\ op.parent = "effect" /\ ~op.stale /\ op.user = userId

C18_ResetOnActivation ==
  [][/\ \A u \in Users :
          SetUserId(u) => (tasks' = <<>> /\ loading' /\ error' = NoError)
     /\ (mounted' /\ InitialFetchPending') => loading']_vars

\* C19: when the initial fetch of the current activation fails, error holds
\* the fetch message, loading is false, the collection is empty and no
\* promise of a caller is rejected.
C19_InitialFetchFailure ==
  [][\A op \in BagToSet(ops) :
       (/\ mounted /\ ~op.stale /\ op.parent = "effect"
        /\ FetchDone(op, FALSE)) =>
         /\ error' = "Failed to fetch tasks"
         /\ ~loading'
         /\ tasks' = <<>>
         /\ outcome' = NotSettled]_vars

\* C20: whatever the renders and the unmount, at most one channel is open,
\* none is open once userId is gone or the component is unmounted, and a
\* cleanup removes the channel its effect opened, which is open until then
\* and is not open afterwards.
Teardown == Unmount \/ \E u \in Users \cup {NoUser} : SetUserId(u)

C20_OneChannel ==
  [][/\ Cardinality(channels') <= 1
     /\ (userId' = NoUser \/ ~mounted') => channels' = {}
     /\ (userId # NoUser /\ Teardown) =>
          /\ channelRef \in channels
          /\ channelRef \notin channels'
          /\ channels' \subseteq {channelRef'}]_vars

\* A channel is open for one user while a call of an earlier activation for
\* another user, torn down since, is still in flight.
C20_Witness ==
  \E c \in channels, op \in BagToSet(ops) : op.stale /\ op.user # c.user

\* C21: when deleteTask has taken a task out of the collection and the
\* store's DELETE event for that delete reaches the handler with the task
\* still absent, the handler leaves the collection as it is.
OwnDeleteEvent(e) ==
  /\ e.eventType = "DELETE"
  /\ \E op \in BagToSet(ops) :
       op.kind = "delete" /\ op.phase = "answered" /\ op.event = e

C21_DeleteEventAfterDelete ==
  [][\A again \in BOOLEAN :
       (/\ PushDeliver(again)
        /\ OwnDeleteEvent(Head(pushQ))
        /\ ~HasId(tasks, Head(pushQ).old.id)) => tasks' = tasks]_vars

\* The DELETE event of this hook's own delete has been handed to the
\* handler while another task was in the collection.
C21_Witness ==
  /\ redelivered
  /\ OwnDeleteEvent(Head(pushQ))
  /\ ~HasId(tasks, Head(pushQ).old.id)
  /\ tasks # <<>>

\* C22: after a successful fetch stats.overdue is the number of fetched
\* tasks that are incomplete, have a due date, and whose due date lies
\* before the time of the computation; a complete task and a task due on a
\* later day are not among them.
OverdueIn(data) ==
  {i \in 1..Len(data) :
     /\ data[i].is_complete = FALSE
     /\ data[i].due_date # NoDue
     /\ ParseDate(data[i].due_date) < Now}

C22_OverdueCount ==
  [][\A op \in BagToSet(ops) :
       FetchDone(op, TRUE) =>
         /\ stats'.overdue = Cardinality(OverdueIn(tasks'))
         /\ tasks' = op.data
         /\ \A i \in OverdueIn(tasks') :
              ~tasks'[i].is_complete /\ tasks'[i].due_date \in {1, 2}]_vars

\* Fetched: a complete task due yesterday, and an incomplete one that is
\* counted.
C22_Witness ==
  /\ ~loading /\ stats.total = MaxRows /\ stats.overdue = 1
  /\ \E t \in Range(tasks) : t.is_complete /\ t.due_date = 1

\* C23: the handler given an INSERT event leaves the collection alone when
\* it holds the row's id and otherwise puts the row before the tasks it
\* holds; given an UPDATE event it puts the pushed row in the place of each
\* task with its id, adding nothing when there is none; no other task
\* changes or moves.
C23_MergeReference ==
  [][\A again \in BOOLEAN :
       PushDeliver(again) =>
         LET e == Head(pushQ) IN
           /\ (e.eventType = "INSERT" /\ HasId(tasks, e.new.id)) => tasks' = tasks
           /\ (e.eventType = "INSERT" /\ ~HasId(tasks, e.new.id)) =>
                /\ Len(tasks') = Len(tasks) + 1
                /\ tasks'[1] = e.new
                /\ \A i \in 1..Len(tasks) : tasks'[i + 1] = tasks[i]
           /\ e.eventType = "UPDATE" =>
                /\ Len(tasks') = Len(tasks)
                /\ \A i \in 1..Len(tasks) :
                     tasks'[i] = IF tasks[i].id = e.new.id THEN e.new ELSE tasks[i]
                /\ ~HasId(tasks, e.new.id) => tasks' = tasks]_vars

\* An UPDATE event has been applied to a collection of MaxLen tasks that
\* holds its id, beside another task.
C23_Witness ==
  /\ redelivered
  /\ Head(pushQ).eventType = "UPDATE"
  /\ Len(tasks) = MaxLen
  /\ \E i \in 1..Len(tasks) : tasks[i] = Head(pushQ).new

\* C24: in every reachable state the tasks of the collection are in the
\* order of their creation times, the latest first.
C24_SortedByCreation ==
  \A i, j \in 1..Len(tasks) : i < j => tasks[i].created_at >= tasks[j].created_at

\* The state InitSwitch starts from, as Spec reaches it.
AfterSwitch ==
  /\ userId = "u2" /\ tasks = <<>> /\ loading /\ error = NoError
  /\ channelRef = Channel("u2", 1) /\ channels = {Channel("u2", 1)}
  /\ pushQ = <<>> /\ ~redelivered /\ isMountedRef /\ mounted
  /\ ops = SetToBag({Stale(FetchOp("u1", "effect")), FetchOp("u2", "effect")})
  /\ events = 1

\* C25: when every fetch is answered, loading is false some time after a
\* render with a concrete userId unless that activation is torn down first,
\* whether its fetch succeeds or fails; and without userId loading is false
\* and no fetch is in flight for it.
C25_LoadingEnds ==
  /\ \A u \in Users :
       (mounted /\ userId = u /\ loading) ~> (~loading \/ ~mounted \/ userId # u)
  /\ [](userId = NoUser =>
          /\ ~loading
          /\ \A op \in BagToSet(ops) : op.kind = "fetch" => op.user # NoUser)

\* The first fetch of a user has failed and loading is false.
C25_Witness ==
  /\ mounted /\ userId # NoUser /\ ~loading
  /\ error = "Failed to fetch tasks"
  /\ tasks = <<>> /\ ops = EmptyBag /\ events = 0

\* C26: once the handler has merged the DELETE event of an id into the
\* collection, no task with that id is in the collection: a fetch response
\* computed before the deletion or the rollback of a delete in flight does
\* not bring it back.  Merged says the oldest waiting event has been handed
\* to the handler of the mounted hook and is kept by the channel.
Merged == redelivered /\ mounted /\ isMountedRef

C26_NoGhostAfterDelete ==
  (Merged /\ Head(pushQ).eventType = "DELETE") =>
     ~HasId(tasks, Head(pushQ).old.id)

\* C27: two toggle calls on the same task overlap, the second made with the
\* value shown after the first's optimistic flip, and the remote calls of
\* both fail: when the second failure is processed the task's complete
\* value is the one it had before the first toggle, whichever failure came
\* first.  LastOfTwoFailing(op) says that op is the only call in flight,
\* that the call settled just before it was a toggle of the same task made
\* with the opposite value and had failed, and that no toggle has written
\* to the store, whose row therefore still has the value from before.
LastOfTwoFailing(op) ==
  /\ op.kind = "toggle" /\ op.phase = "sent"
  /\ ops = SetToBag({op})
  /\ outcome = Settled("toggle", "resolved", op.taskId, ~op.arg)
  /\ error = "Failed to toggle task"
  /\ pushQ = <<>>
  /\ mounted

C27_BothTogglesFail ==
  [][\A op \in BagToSet(ops) :
       (LastOfTwoFailing(op) /\ ToggleDone(op, FALSE)) =>
          \A i \in 1..Len(tasks') :
             tasks'[i].id = op.taskId =>
                \E r \in store : r.id = op.taskId /\
                                  r.is_complete = tasks'[i].is_complete]_vars

====
